---- MODULE Spec2Model ----
(***************************************************************************)
(* Model of acoustics/octave.py: the free band-arithmetic functions and    *)
(* the Octave calculator (constructor, property getters and setters).      *)
(*                                                                         *)
(* Python values are records [t, v]: t is the Python type, v the payload.   *)
(* Frequencies are non-negative integers; band indices are integers or     *)
(* -inf (the band of frequency 0).  A center frequency is the irrational    *)
(* ref * 10^(3/(10 N)) * 2^(n/N); it is kept in closed form as the triple   *)
(* (ref, N, e2) standing for ref * 10^(3/(10 N)) * 2^(e2/(2 N)), so that    *)
(* band edges (e2 +/- 1) and comparisons with a frequency stay exact.       *)
(***************************************************************************)
EXTENDS Integers, Sequences, FiniteSets, TLC

VARIABLES
    pc,      \* "new" before Octave(...), "live" once constructed, "failed" if __init__ raised
    self,    \* the calculator's attributes, or NoObject
    op,      \* the name of the last call
    ret,     \* what the last call returned or raised
    mark,    \* one remembered read [p, val] since the last setter call
    arith    \* the free-function calls: [stage, f, fraction, ref, n, c, lo, hi]

vars == <<pc, self, op, ret, mark, arith>>

----------------------------------------------------------------------------
(* Bounds and input domains *)

MaxLen == 2
MaxF == 25
\* the free functions are exercised where f^(2 fraction) and ref^(2 fraction) stay
\* within MaxPow, so that every product of the exact comparisons fits in 32 bits
MaxPow == 130000

REFERENCE == 1000

Fractions == {1, 3}
References == {REFERENCE}
BoundFreqs == {0, 500, 2000}
IntervalFreqs == {100, 2000}
ArithFractions == {1, 2, 3}

----------------------------------------------------------------------------
(* Python values *)

PyNone == [t |-> "None", v |-> <<>>]
Num(x) == [t |-> "num", v |-> <<x>>]
List(s) == [t |-> "list", v |-> s]
NdArray(s) == [t |-> "ndarray", v |-> s]
\* np.asarray(None): a 0-d object array holding None; it is an object, not None
NdArrayOfNone == [t |-> "ndarray0d(None)", v |-> <<>>]
TypeError == [t |-> "raise TypeError", v |-> <<>>]
\* np.arange with a non-finite end (ValueError, OverflowError in later numpy)
ValueError == [t |-> "raise ValueError", v |-> <<>>]
AttributeError == [t |-> "raise AttributeError", v |-> <<>>]
NoResult == [t |-> "nothing", v |-> <<>>]

IsNotNone(x) == x.t # "None"
IsRaise(x) == x.t \in {"raise TypeError", "raise ValueError", "raise AttributeError"}
\* bool(x) as `if x` takes it: None and 0 are false
Truthy(x) == x.t = "num" /\ x.v[1] # 0

\* a band index: an integer or -inf
Band(i) == [k |-> "int", i |-> i]
NegInf == [k |-> "-inf", i |-> 0]

\* ref * 10^(3/(10 N)) * 2^(e2/(2 N)), and 0.0
Sym(ref, N, e2) == [k |-> "sym", ref |-> ref, N |-> N, e2 |-> e2]
Zero(ref, N) == [k |-> "zero", ref |-> ref, N |-> N, e2 |-> 0]

RECURSIVE SeqMin(_)
SeqMin(s) ==
    IF Len(s) = 1 THEN s[1]
    ELSE LET m == SeqMin(Tail(s)) IN IF s[1] <= m THEN s[1] ELSE m

RECURSIVE SeqMax(_)
SeqMax(s) ==
    IF Len(s) = 1 THEN s[1]
    ELSE LET m == SeqMax(Tail(s)) IN IF s[1] >= m THEN s[1] ELSE m

----------------------------------------------------------------------------
(* Exact arithmetic *)

RECURSIVE Pow(_, _)
Pow(b, e) == IF e = 0 THEN 1 ELSE b * Pow(b, e - 1)

RECURSIVE GCD(_, _)
GCD(a, b) == IF b = 0 THEN a ELSE GCD(b, a % b)

\* floor(log2(a/b)) for positive integers a, b
RECURSIVE FloorLog2(_, _)
FloorLog2(a, b) ==
    IF a < b THEN FloorLog2(2 * a, b) - 1
    ELSE IF a >= 2 * b THEN FloorLog2(a, 2 * b) + 1
    ELSE 0

\* 10^(3/5) = 3.98107..., bracketed: Ten06Lo/Ten06Den < 10^(3/5) < Ten06Hi/Ten06Den
Ten06Lo == 3981
Ten06Hi == 3982
Ten06Den == 1000

----------------------------------------------------------------------------
(* Band arithmetic: the free functions *)

\* mutant: np.ceil where the code has np.round
BandIndexCeil(f, fraction, ref) ==
    IF f = 0 THEN NegInf
    ELSE LET g == GCD(f, ref)
             a == Pow(f \div g, 2 * fraction)
             b == Pow(ref \div g, 2 * fraction)
         IN  Band(FloorLog2(a, b) \div 2)

\* round((log2(f/ref) - 1/fraction) * fraction) for a scalar f >= 0.
\* With L = 2 * fraction * log2(f/ref) the argument of round is (L - 2)/2, and
\* round(x) = floor(x + 1/2) = floor((floor(L) - 1) / 2): a tie would need
\* (f/ref)^(2 fraction) to be an odd power of 2, which no rational f/ref gives.
\* log2(0) is -inf, and so is its rounding.
BandIndex(f, fraction, ref) ==
    IF f = 0 THEN NegInf
    ELSE LET g == GCD(f, ref)
             a == Pow(f \div g, 2 * fraction)
             b == Pow(ref \div g, 2 * fraction)
         IN  Band((FloorLog2(a, b) - 1) \div 2)

\* band_of_frequency over a Python value: None / ref is a TypeError, an array
\* is taken element by element, in order
band_of_frequency(f, fraction, ref) ==
    IF f.t \in {"None", "ndarray0d(None)"} THEN TypeError
    ELSE [t |-> f.t, v |-> [i \in 1..Len(f.v) |-> BandIndex(f.v[i], fraction, ref)]]

\* ref * 10^(3/fraction/10) * 2^(n/fraction); 2^(-inf) is 0
CenterOfBand(n, fraction, ref) ==
    IF n.k = "-inf" THEN Zero(ref, fraction) ELSE Sym(ref, fraction, 2 * n.i)

frequency_of_band(n, fraction, ref) ==
    [t |-> n.t, v |-> [i \in 1..Len(n.v) |-> CenterOfBand(n.v[i], fraction, ref)]]

\* x * 2^(d/(2 fraction)) on the closed form
Scale(x, fraction, d) ==
    IF x.k = "zero" THEN x
    ELSE IF x.N = fraction THEN [x EXCEPT !.e2 = @ + d]
    ELSE [x EXCEPT !.k = "other"]

upper_frequency(center, fraction) ==
    [t |-> center.t, v |-> [i \in 1..Len(center.v) |-> Scale(center.v[i], fraction, 1)]]

lower_frequency(center, fraction) ==
    [t |-> center.t, v |-> [i \in 1..Len(center.v) |-> Scale(center.v[i], fraction, -1)]]

----------------------------------------------------------------------------
(* class Octave *)

NoObject == [reference |-> 0, fraction |-> 0, interval_ |-> PyNone,
             fmin_ |-> PyNone, fmax_ |-> PyNone, unique |-> FALSE]

\* np.asarray(x)
asarray(x) ==
    IF x.t = "None" THEN NdArrayOfNone
    ELSE IF x.t = "list" THEN NdArray(x.v)
    ELSE x

\* mutant: the truth value of the bounds where the code has `is not None`
init_raises_truthy(interval, fmin, fmax) ==
    IsNotNone(interval) /\ (Truthy(fmin) \/ Truthy(fmax))

\* the condition under which __init__ raises AttributeError
init_raises(interval, fmin, fmax) ==
    IsNotNone(interval) /\ (IsNotNone(fmin) \/ IsNotNone(fmax))

\* the attributes __init__ stores
init_object(fraction, interval, fmin, fmax, unique, reference) ==
    [reference |-> reference, fraction |-> fraction, interval_ |-> asarray(interval),
     fmin_ |-> fmin, fmax_ |-> fmax, unique |-> unique]

interval_get(o) == o.interval_

\* mutant: the first element where the code takes the minimum
amin_first(a) == IF a.t = "ndarray0d(None)" THEN PyNone ELSE Num(a.v[1])

\* ndarray.min() / ndarray.max(); the 0-d array of None reduces to None
amin(a) == IF a.t = "ndarray0d(None)" THEN PyNone ELSE Num(SeqMin(a.v))
amax(a) == IF a.t = "ndarray0d(None)" THEN PyNone ELSE Num(SeqMax(a.v))

fmin_get(o) ==
    IF IsNotNone(o.fmin_) THEN o.fmin_
    ELSE IF IsNotNone(o.interval_) THEN amin(interval_get(o))
    ELSE PyNone

\* mutant: the assignment without the test of the interval
fmin_set_always(o, x) == [o EXCEPT !.fmin_ = x]

fmin_set(o, x) ==
    IF IsNotNone(interval_get(o)) THEN o ELSE [o EXCEPT !.fmin_ = x]

fmax_get(o) ==
    IF IsNotNone(o.fmax_) THEN o.fmax_
    ELSE IF IsNotNone(o.interval_) THEN amax(interval_get(o))
    ELSE PyNone

fmax_set(o, x) ==
    IF IsNotNone(interval_get(o)) THEN o ELSE [o EXCEPT !.fmax_ = x]

interval_set(o, x) ==
    IF Truthy(o.fmin_) \/ Truthy(o.fmax_) THEN o ELSE [o EXCEPT !.interval_ = asarray(x)]

n_(o, f) == band_of_frequency(f, o.fraction, o.reference)

fc_(o, n) == frequency_of_band(n, o.fraction, o.reference)

\* np.arange(start, stop + 1) of two band indices: a non-finite end raises
arange(start, stop) ==
    IF IsRaise(start) THEN start
    ELSE IF IsRaise(stop) THEN stop
    ELSE IF start.v[1].k = "-inf" \/ stop.v[1].k = "-inf" THEN ValueError
    ELSE LET a == start.v[1].i
             b == stop.v[1].i
         IN  NdArray([i \in 1..(IF b >= a THEN b - a + 1 ELSE 0) |-> Band(a + i - 1)])

\* mutant: the contiguous range whatever the unique flag
n_range_only(o) == arange(n_(o, fmin_get(o)), n_(o, fmax_get(o)))

n(o) ==
    IF IsNotNone(interval_get(o)) /\ o.unique
    THEN n_(o, interval_get(o))
    ELSE arange(n_(o, fmin_get(o)), n_(o, fmax_get(o)))

center(o) ==
    LET bands == n(o) IN IF IsRaise(bands) THEN bands ELSE fc_(o, bands)

lower(o) ==
    LET c == center(o) IN IF IsRaise(c) THEN c ELSE lower_frequency(c, o.fraction)

upper(o) ==
    LET c == center(o) IN IF IsRaise(c) THEN c ELSE upper_frequency(c, o.fraction)

bandwidth(o) ==
    LET u == upper(o)
        l == lower(o)
    IN  IF IsRaise(u) THEN u
        ELSE [t |-> u.t, v |-> [i \in 1..Len(u.v) |-> [k |-> "diff", hi |-> u.v[i], lo |-> l.v[i]]]]

\* mutant: a getter that stores the bound it derived from the interval
getter_state_caching(o) == [o EXCEPT !.fmin_ = fmin_get(o)]

\* the attributes after a property read: no getter assigns to self
getter_state(o) == o

Properties == {"fmin", "fmax", "interval", "n", "center", "lower", "upper", "bandwidth"}

\* what reading property p returns
read(o, p) ==
    CASE p = "fmin" -> fmin_get(o)
      [] p = "fmax" -> fmax_get(o)
      [] p = "interval" -> interval_get(o)
      [] p = "n" -> n(o)
      [] p = "center" -> center(o)
      [] p = "lower" -> lower(o)
      [] p = "upper" -> upper(o)
      [] p = "bandwidth" -> bandwidth(o)


----------------------------------------------------------------------------
(* Inputs *)

RECURSIVE SeqsUpTo(_, _)
\* the non-empty sequences over S of length at most k
SeqsUpTo(S, k) ==
    IF k = 0 THEN {}
    ELSE LET shorter == SeqsUpTo(S, k - 1)
         IN  {<<x>> : x \in S} \cup shorter \cup {Append(s, x) : s \in shorter, x \in S}

ScenarioIntervals == {<<1000, 2000>>, <<100, 200, 400, 800>>}
Intervals == {List(s) : s \in SeqsUpTo(IntervalFreqs, MaxLen) \cup ScenarioIntervals}
IntervalArgs == {PyNone} \cup Intervals
BoundArgs == {PyNone} \cup {Num(x) : x \in BoundFreqs}

NoMark == [p |-> "none", val |-> NoResult]
ArithIdle == [stage |-> "idle", f |-> 0, fraction |-> 0, ref |-> 0,
              n |-> NoResult, c |-> NoResult, lo |-> NoResult, hi |-> NoResult]

----------------------------------------------------------------------------
(* The calculator as a state machine *)

Init ==
    /\ pc = "new"
    /\ self = NoObject
    /\ op = "none"
    /\ ret = NoResult
    /\ mark = NoMark
    /\ arith = ArithIdle

\* Octave(fraction, interval, fmin, fmax, unique, reference)
Construct(fraction, interval, fmin, fmax, unique, reference) ==
    /\ pc = "new"
    /\ op' = "__init__"
    /\ IF init_raises(interval, fmin, fmax)
       THEN /\ pc' = "failed"
            /\ self' = NoObject
            /\ ret' = AttributeError
       ELSE /\ pc' = "live"
            /\ self' = init_object(fraction, interval, fmin, fmax, unique, reference)
            /\ ret' = NoResult
    /\ UNCHANGED <<mark, arith>>

\* o.fmin = x
SetFmin(x) ==
    /\ pc = "live"
    /\ self' = fmin_set(self, x)
    /\ op' = "fmin.setter"
    /\ ret' = NoResult
    /\ mark' = NoMark
    /\ UNCHANGED <<pc, arith>>

\* o.fmax = x
SetFmax(x) ==
    /\ pc = "live"
    /\ self' = fmax_set(self, x)
    /\ op' = "fmax.setter"
    /\ ret' = NoResult
    /\ mark' = NoMark
    /\ UNCHANGED <<pc, arith>>

\* o.interval = x
SetInterval(x) ==
    /\ pc = "live"
    /\ self' = interval_set(self, x)
    /\ op' = "interval.setter"
    /\ ret' = NoResult
    /\ mark' = NoMark
    /\ UNCHANGED <<pc, arith>>

\* a read of property p; the observer may remember one read to compare a later
\* read of the same property with
Get(p) ==
    /\ pc = "live"
    /\ self' = getter_state(self)
    /\ op' = p
    /\ ret' = read(self, p)
    /\ \/ mark' = mark
       \/ mark.p = "none" /\ mark' = [p |-> p, val |-> ret']
    /\ UNCHANGED <<pc, arith>>

GetFmin == Get("fmin")
GetFmax == Get("fmax")
GetInterval == Get("interval")
GetN == Get("n")
GetCenter == Get("center")
GetLower == Get("lower")
GetUpper == Get("upper")
GetBandwidth == Get("bandwidth")

Next ==
    \/ \E fraction \in Fractions, interval \in IntervalArgs, fmin \in BoundArgs,
          fmax \in BoundArgs, unique \in BOOLEAN, reference \in References :
          Construct(fraction, interval, fmin, fmax, unique, reference)
    \/ \E x \in BoundArgs : SetFmin(x)
    \/ \E x \in BoundArgs : SetFmax(x)
    \/ \E x \in IntervalArgs : SetInterval(x)
    \/ GetFmin
    \/ GetFmax
    \/ GetInterval
    \/ GetN
    \/ GetCenter
    \/ GetLower
    \/ GetUpper
    \/ GetBandwidth

Spec == Init /\ [][Next]_vars

----------------------------------------------------------------------------
(* The free functions as a state machine: one round trip per behaviour *)

\* n = band_of_frequency(f, fraction, ref)
CallBandOfFrequency(f, fraction, ref) ==
    /\ arith.stage = "idle"
    /\ Pow(f, 2 * fraction) <= MaxPow /\ Pow(ref, 2 * fraction) <= MaxPow
    /\ arith' = [arith EXCEPT !.stage = "band", !.f = f, !.fraction = fraction, !.ref = ref,
                              !.n = band_of_frequency(Num(f), fraction, ref)]
    /\ UNCHANGED <<pc, self, op, ret, mark>>

\* c = frequency_of_band(n, fraction, ref)
CallFrequencyOfBand ==
    /\ arith.stage = "band"
    /\ arith' = [arith EXCEPT !.stage = "center",
                              !.c = frequency_of_band(arith.n, arith.fraction, arith.ref)]
    /\ UNCHANGED <<pc, self, op, ret, mark>>

\* lower_frequency(c, fraction), upper_frequency(c, fraction)
CallEdges ==
    /\ arith.stage = "center"
    /\ arith' = [arith EXCEPT !.stage = "edges",
                              !.lo = lower_frequency(arith.c, arith.fraction),
                              !.hi = upper_frequency(arith.c, arith.fraction)]
    /\ UNCHANGED <<pc, self, op, ret, mark>>

NextArith ==
    \/ \E f \in 1..MaxF, fraction \in ArithFractions, ref \in 1..MaxF :
          CallBandOfFrequency(f, fraction, ref)
    \/ CallFrequencyOfBand
    \/ CallEdges

SpecArith == Init /\ [][NextArith]_vars


----------------------------------------------------------------------------
(* Vocabulary of the properties *)

\* the calculator holds a supplied interval (an array of frequencies)
HoldsInterval(o) == o.interval_.t = "ndarray"
\* a bound was explicitly set
ExplicitBound(o) == o.fmin_.t # "None" \/ o.fmax_.t # "None"
DerivedProperties == {"n", "center", "lower", "upper", "bandwidth"}

\* the least / greatest element of an array of frequencies
LeastOf(s) == CHOOSE m \in {s[i] : i \in 1..Len(s)} : \A i \in 1..Len(s) : m <= s[i]
GreatestOf(s) == CHOOSE m \in {s[i] : i \in 1..Len(s)} : \A i \in 1..Len(s) : m >= s[i]

\* scalar f against the closed form x = ref * 10^(3/(10 N)) * 2^(e2/(2 N)):
\* x <= f  iff  10^(3/5) <= a/b  with  a/b = f^(2N) / (ref^(2N) * 2^e2)
RatioNum(x, f) ==
    LET g == GCD(f, x.ref)
    IN  Pow(f \div g, 2 * x.N) * (IF x.e2 < 0 THEN Pow(2, -x.e2) ELSE 1)

RatioDen(x, f) ==
    LET g == GCD(f, x.ref)
    IN  Pow(x.ref \div g, 2 * x.N) * (IF x.e2 > 0 THEN Pow(2, x.e2) ELSE 1)

\* x <= f, decided by the bracket of 10^(3/5)
SymLeq(x, f) == Ten06Hi * RatioDen(x, f) <= Ten06Den * RatioNum(x, f)
\* f <= x
SymGeq(x, f) == Ten06Den * RatioNum(x, f) <= Ten06Lo * RatioDen(x, f)
\* the bracket decides the comparison of x with f
Decided(x, f) == SymLeq(x, f) \/ SymGeq(x, f)

\* f <= ref * 2^(e2/(2 N)): x without its factor 10^(3/(10 N))
Base2Leq(f, x) == RatioNum(x, f) <= RatioDen(x, f)

----------------------------------------------------------------------------
(* Properties *)

\* C1: constructing with an interval together with an fmin or fmax that is not
\* None (0 included) raises AttributeError in the constructor and yields no
\* calculator; any other construction yields one, and no later call raises
\* AttributeError.
C1_ConstructionFailsFast ==
    [][/\ pc = "new" =>
            \A fraction \in Fractions, interval \in IntervalArgs, fmin \in BoundArgs,
               fmax \in BoundArgs, unique \in BOOLEAN, reference \in References :
               Construct(fraction, interval, fmin, fmax, unique, reference) =>
                   IF interval.t # "None" /\ (fmin.t # "None" \/ fmax.t # "None")
                   THEN pc' = "failed" /\ self' = NoObject /\ ret' = AttributeError
                   ELSE pc' = "live" /\ ~IsRaise(ret')
       /\ pc = "live" => ret' # AttributeError]_vars

C1_Witness == pc = "failed" /\ op = "__init__" /\ ret = AttributeError /\ self = NoObject

\* C2: a calculator never holds both a supplied interval and an explicitly set
\* fmin or fmax.
C2_IntervalExcludesBounds ==
    pc = "live" => ~(HoldsInterval(self) /\ ExplicitBound(self))

\* C3: on a calculator with bounds and no interval, assigning x to fmin (fmax)
\* takes effect: the next read of fmin (fmax) returns x.
C3_BoundAssignmentTakesEffect ==
    [][(pc = "live" /\ ~HoldsInterval(self) /\ ExplicitBound(self)) =>
          \A x \in BoundArgs :
             /\ SetFmin(x) => fmin_get(self') = x
             /\ SetFmax(x) => fmax_get(self') = x]_vars

\* C4: on a calculator that holds an interval, assigning to fmin or fmax raises
\* nothing and changes no attribute, so fmin, fmax and n read as before.
C4_BoundAssignmentIgnored ==
    [][(pc = "live" /\ HoldsInterval(self) /\ op' \in {"fmin.setter", "fmax.setter"}) =>
          /\ ~IsRaise(ret')
          /\ self' = self
          /\ fmin_get(self') = fmin_get(self)
          /\ fmax_get(self') = fmax_get(self)
          /\ n(self') = n(self)]_vars

C4_Witness ==
    /\ pc = "live" /\ op = "fmin.setter"
    /\ HoldsInterval(self) /\ ~ExplicitBound(self)
    /\ fmin_get(self) = Num(100)

\* C5: a read of fmin returns the explicit minimum if one is set, else the
\* least element of the current interval if one is held, else None; fmax
\* likewise with the greatest; the read stores nothing.
C5_BoundReads ==
    [][(pc = "live" /\ op' \in {"fmin", "fmax"}) =>
          /\ self' = self
          /\ op' = "fmin" =>
                ret' = IF self.fmin_.t # "None" THEN self.fmin_
                       ELSE IF HoldsInterval(self) THEN Num(LeastOf(self.interval_.v))
                       ELSE PyNone
          /\ op' = "fmax" =>
                ret' = IF self.fmax_.t # "None" THEN self.fmax_
                       ELSE IF HoldsInterval(self) THEN Num(GreatestOf(self.interval_.v))
                       ELSE PyNone]_vars

C5_Witness ==
    /\ pc = "live" /\ op = "fmin"
    /\ self.interval_ = NdArray(<<2000, 100>>) /\ ~ExplicitBound(self)
    /\ ret = Num(100)

\* C6: with no interval, or with unique false, and both bounds available (and
\* positive), n is the run of consecutive integers from the band of fmin to the
\* band of fmax.
C6_ContiguousRange ==
    (/\ pc = "live" /\ op = "n"
     /\ ~HoldsInterval(self) \/ ~self.unique
     /\ fmin_get(self).t = "num" /\ fmax_get(self).t = "num"
     /\ fmin_get(self).v[1] > 0 /\ fmax_get(self).v[1] > 0)
    => LET a == BandIndex(fmin_get(self).v[1], self.fraction, self.reference).i
           b == BandIndex(fmax_get(self).v[1], self.fraction, self.reference).i
       IN  /\ ret.t = "ndarray"
           /\ Len(ret.v) = (IF b >= a THEN b - a + 1 ELSE 0)
           /\ \A i \in 1..Len(ret.v) : ret.v[i] = Band(a + i - 1)

\* C7: with an interval and unique true, n has one band index per interval
\* element, in the interval's order.
C7_OneBandPerElement ==
    (pc = "live" /\ op = "n" /\ HoldsInterval(self) /\ self.unique)
    => /\ ret.t = "ndarray"
       /\ Len(ret.v) = Len(self.interval_.v)
       /\ \A i \in 1..Len(ret.v) :
             ret.v[i] = BandIndex(self.interval_.v[i], self.fraction, self.reference)

C7_Witness ==
    /\ pc = "live" /\ op = "n" /\ self.unique
    /\ self.fraction = 3 /\ self.reference = 1000
    /\ self.interval_ = NdArray(<<1000, 2000>>)
    /\ ret = NdArray(<<Band(-1), Band(2)>>)

\* C8: on a constructed calculator no read of n, center, lower, upper or
\* bandwidth raises.
C8_DerivedReadsNeverRaise ==
    (pc = "live" /\ op \in DerivedProperties) => ~IsRaise(ret)

\* C9: a read changes no attribute, and returns what the remembered earlier read
\* of the same property returned when no setter was called in between.
C9_ReadsArePure ==
    [][(pc = "live" /\ op' \in Properties) =>
          /\ self' = self
          /\ mark.p = op' => ret' = mark.val]_vars

C9_Witness ==
    /\ pc = "live" /\ op = "bandwidth" /\ mark.p = "bandwidth"
    /\ ret = mark.val /\ ret.t = "ndarray" /\ Len(ret.v) = 3

\* C10 as stated: the round trip c of f has f within its band edges,
\* lower_frequency(c) <= f <= upper_frequency(c).
C10_RoundTripWithinEdges ==
    arith.stage = "edges" =>
        /\ SymLeq(arith.lo.v[1], arith.f)
        /\ SymGeq(arith.hi.v[1], arith.f)

\* C10 amended: lower_frequency(c) <= f <= upper_frequency(c) * (2 / 10^0.3)^(1/fraction),
\* the latter being ref * 2^((2n + 3) / (2 fraction)).
C10_RoundTripAmended ==
    arith.stage = "edges" =>
        /\ SymLeq(arith.lo.v[1], arith.f)
        /\ Base2Leq(arith.f, Scale(arith.hi.v[1], arith.fraction, 2))

\* a frequency above upper_frequency(c): 24 against reference 17
C10_Witness ==
    /\ arith.stage = "edges" /\ arith.f = 24 /\ arith.ref = 17 /\ arith.fraction = 1
    /\ arith.n = Num(Band(-1))
    /\ SymLeq(arith.hi.v[1], arith.f)

\* the bracket of 10^(3/5) decides every comparison the round trips make
BracketDecides ==
    arith.stage = "edges" =>
        /\ Decided(arith.lo.v[1], arith.f)
        /\ Decided(arith.hi.v[1], arith.f)


====
